---- MODULE Spec2Model ----
(***************************************************************************)
(* A model of analyze-repo.py: GitContributorAnalyzer and main().          *)
(*                                                                         *)
(* Text is modelled as it is in the program: a string is a sequence of     *)
(* characters, a character a one-element token.  The output of a git       *)
(* command is the sequence of its lines (the text split at newlines).      *)
(* The three control characters the program looks for have names.          *)
(***************************************************************************)
EXTENDS Integers, Sequences, FiniteSets, TLC

TAB == "<TAB>"
NUL == "<NUL>"
BSL == "<BSL>"
SP  == " "

\* Python's None.  No string equals it: every element of a string is one
\* character.
None == <<"None">>

Digits == {"0", "1", "2", "3", "4", "5", "6", "7", "8", "9"}

\* str.isdigit() of one character
IsDigit(c) == c \in Digits

DigitVal(c) ==
  CASE c = "0" -> 0 [] c = "1" -> 1 [] c = "2" -> 2 [] c = "3" -> 3
    [] c = "4" -> 4 [] c = "5" -> 5 [] c = "6" -> 6 [] c = "7" -> 7
    [] c = "8" -> 8 [] c = "9" -> 9

DigitChar(n) ==
  CASE n = 0 -> "0" [] n = 1 -> "1" [] n = 2 -> "2" [] n = 3 -> "3"
    [] n = 4 -> "4" [] n = 5 -> "5" [] n = 6 -> "6" [] n = 7 -> "7"
    [] n = 8 -> "8" [] n = 9 -> "9"

\* int(s) succeeds: s is a non-empty run of decimal digits (git prints no
\* sign and no blanks in the fields the program converts).
IsInt(s) == Len(s) > 0 /\ \A i \in 1..Len(s) : IsDigit(s[i])

RECURSIVE IntOf(_)
IntOf(s) ==
  IF Len(s) = 0 THEN 0
  ELSE 10 * IntOf(SubSeq(s, 1, Len(s) - 1)) + DigitVal(s[Len(s)])

\* The decimal text of a natural number, as git prints a count.
RECURSIVE Str(_)
Str(n) == IF n < 10 THEN <<DigitChar(n)>> ELSE Str(n \div 10) \o <<DigitChar(n % 10)>>

\* s[n:]
From(s, n) == SubSeq(s, n + 1, Len(s))

\* s.startswith(p)
StartsWith(s, p) == Len(s) >= Len(p) /\ SubSeq(s, 1, Len(p)) = p

\* s.endswith(p)
EndsWith(s, p) == Len(s) >= Len(p) /\ SubSeq(s, Len(s) - Len(p) + 1, Len(s)) = p

\* p in s
Contains(s, p) ==
  \E i \in 1..(Len(s) - Len(p) + 1) : SubSeq(s, i, i + Len(p) - 1) = p

\* s.strip(chars)
RECURSIVE LStrip(_, _)
LStrip(s, chars) ==
  IF Len(s) > 0 /\ s[1] \in chars THEN LStrip(Tail(s), chars) ELSE s

RECURSIVE RStrip(_, _)
RStrip(s, chars) ==
  IF Len(s) > 0 /\ s[Len(s)] \in chars THEN RStrip(SubSeq(s, 1, Len(s) - 1), chars) ELSE s

Strip(s, chars) == RStrip(LStrip(s, chars), chars)

Whitespace == {SP, TAB}

\* s.strip()
StripWs(s) == Strip(s, Whitespace)

\* s.replace(a, b) for single characters
Replace(s, a, b) == [i \in 1..Len(s) |-> IF s[i] = a THEN b ELSE s[i]]

\* s.split(sep) for a single-character separator: the pieces, empty ones kept
RECURSIVE SplitFrom(_, _, _)
SplitFrom(s, sep, piece) ==
  IF Len(s) = 0 THEN <<piece>>
  ELSE IF s[1] = sep THEN <<piece>> \o SplitFrom(Tail(s), sep, <<>>)
       ELSE SplitFrom(Tail(s), sep, Append(piece, s[1]))

Split(s, sep) == SplitFrom(s, sep, <<>>)

\* fnmatch.fnmatch(name, pat) on POSIX (normcase is the identity there), for
\* patterns made of literal characters, '*' and '?': the pattern must match
\* the whole name, and '*' also matches '/'.
RECURSIVE FnMatch(_, _)
FnMatch(name, pat) ==
  IF Len(pat) = 0 THEN Len(name) = 0
  ELSE IF pat[1] = "*"
       THEN \E i \in 0..Len(name) : FnMatch(From(name, i), Tail(pat))
       ELSE /\ Len(name) > 0
            /\ (pat[1] = "?" \/ pat[1] = name[1])
            /\ FnMatch(Tail(name), Tail(pat))

(***************************************************************************)
(* GitContributorAnalyzer: the constructor and the pure methods.           *)
(***************************************************************************)

Truthy(v) == v # None /\ v # <<>>

\* __init__: self.exclude_commits
CleanExcludeCommits(raw) == [i \in 1..Len(raw) |-> StripWs(raw[i])]

KeepsExcludePath(p) == StripWs(p) # <<>>

\* __init__: self.exclude_paths, trailing and leading slashes removed, blank
\* entries dropped
CleanExcludePaths(raw) ==
  LET kept == SelectSeq(raw, KeepsExcludePath)
  IN  [i \in 1..Len(kept) |-> Strip(kept[i], {"/"})]

HEAD == <<"H", "E", "A", "D">>

get_revision_range(excl_commits) ==
  IF Len(excl_commits) = 0 THEN <<HEAD>>
  ELSE <<HEAD>> \o [i \in 1..Len(excl_commits) |-> <<"^">> \o excl_commits[i]]

\* The test of one exclude path against the normalized file path.
PathMatchesPlainSubstring(normalized_path, exclude_path) ==
  \/ normalized_path = exclude_path
  \/ StartsWith(normalized_path, exclude_path \o <<"/">>)
  \/ Contains(normalized_path, exclude_path)

PathMatches(normalized_path, exclude_path) ==
  \/ normalized_path = exclude_path
  \/ StartsWith(normalized_path, exclude_path \o <<"/">>)
  \/ Contains(<<"/">> \o normalized_path \o <<"/">>,
              <<"/">> \o exclude_path \o <<"/">>)

\* normalized_path as the pattern loop sees it: the path loop rewrites it on
\* each of its rounds, so backslashes are replaced only when there is at
\* least one exclude path.
PatternSubject(file_path, excl_paths) ==
  IF Len(excl_paths) > 0
  THEN Replace(Strip(file_path, {"/"}), BSL, "/")
  ELSE Strip(file_path, {"/"})

should_exclude_file(file_path, excl_paths, excl_patterns) ==
  \/ \E i \in 1..Len(excl_paths) :
       PathMatches(Replace(Strip(file_path, {"/"}), BSL, "/"),
                   Replace(excl_paths[i], BSL, "/"))
  \/ \E j \in 1..Len(excl_patterns) :
       FnMatch(PatternSubject(file_path, excl_paths), excl_patterns[j])

\* extract_email_domain, for a plain address (parseaddr returns it as it
\* is): the text between the first '@' and the next, None without '@'.
extract_email_domain(email) ==
  IF "@" \in {email[i] : i \in 1..Len(email)} THEN Split(email, "@")[2] ELSE None

(***************************************************************************)
(* The git collaborator.  A file's history is the sequence of the commits  *)
(* that touched it, oldest first; commit n has id n.  A commit is          *)
(*   [author, email, time, adds, replace, binary]:                         *)
(* it appends the lines `adds` to the file, after deleting every earlier   *)
(* line when `replace`; `binary` makes numstat print '-' for its counts.   *)
(* The operators below print what the git commands of process_file print   *)
(* for such a history (their documented porcelain and numstat formats).    *)
(***************************************************************************)

RECURSIVE Flatten(_)
Flatten(ss) == IF Len(ss) = 0 THEN <<>> ELSE Head(ss) \o Flatten(Tail(ss))

\* The lines of the file after its first n commits, each with the commit
\* that introduced it.
RECURSIVE LinesAt(_, _)
LinesAt(h, n) ==
  IF n = 0 THEN <<>>
  ELSE LET c    == h[n]
           kept == IF c.replace THEN <<>> ELSE LinesAt(h, n - 1)
       IN  kept \o [i \in 1..Len(c.adds) |-> [content |-> c.adds[i], origin |-> n]]

MaxOf(S) == IF S = {} THEN 0 ELSE CHOOSE y \in S : \A z \in S : z <= y

\* The newest commit the revision arguments exclude (HEAD ^c excludes c and
\* everything older); 0 when they exclude nothing.
Boundary(revision_args) ==
  MaxOf({IntOf(From(revision_args[i], 1)) :
           i \in {j \in 1..Len(revision_args) : revision_args[j][1] = "^"}})

AuthorPrefix == <<"a", "u", "t", "h", "o", "r", SP>>
MailPrefix   == <<"a", "u", "t", "h", "o", "r", "-", "m", "a", "i", "l", SP>>
TimePrefix   == <<"a", "u", "t", "h", "o", "r", "-", "t", "i", "m", "e", SP>>
BoundaryLine == <<"b", "o", "u", "n", "d", "a", "r", "y">>
FilenamePrefix == <<"f", "i", "l", "e", "n", "a", "m", "e", SP>>

\* The commit git blame names for a line: the commit that introduced it, or
\* the boundary of the range when that commit is outside the range.
BlamedCommit(origin, revision_args) ==
  IF origin <= Boundary(revision_args) THEN Boundary(revision_args) ELSE origin

\* git blame --line-porcelain: for each line of the file its commit header,
\* the author fields, 'boundary' for a boundary commit, the file name and
\* the line itself after a TAB.  `garbled` prints a time that is no number.
BlameGroup(h, revision_args, file_path, i, garbled) ==
  LET ln  == LinesAt(h, Len(h))[i]
      cid == BlamedCommit(ln.origin, revision_args)
      c   == h[cid]
  IN  << Str(cid) \o <<SP>> \o Str(i) \o <<SP>> \o Str(i),
         AuthorPrefix \o c.author,
         MailPrefix \o <<"<">> \o c.email \o <<">">>,
         TimePrefix \o (IF garbled THEN <<"x">> ELSE Str(c.time)) >>
      \o (IF ln.origin <= Boundary(revision_args) THEN <<BoundaryLine>> ELSE <<>>)
      \o << FilenamePrefix \o file_path,
            <<TAB>> \o ln.content >>

GitBlame(h, revision_args, file_path, garbled) ==
  Flatten([i \in 1..Len(LinesAt(h, Len(h))) |->
             BlameGroup(h, revision_args, file_path, i, garbled)])
  \o << <<>> >>

\* One commit of git log --format=format:%aN%x00%aE --numstat: the author
\* line, the numstat line of the file, and the blank line that ends it.
LogEntry(h, n, file_path) ==
  LET c       == h[n]
      deleted == IF c.replace THEN Len(LinesAt(h, n - 1)) ELSE 0
  IN  << c.author \o <<NUL>> \o c.email,
         (IF c.binary
          THEN <<"-", TAB, "-", TAB>>
          ELSE Str(Len(c.adds)) \o <<TAB>> \o Str(deleted) \o <<TAB>>) \o file_path,
         <<>> >>

\* The commits of the range, newest first.
GitLog(h, revision_args, file_path) ==
  LET k == Boundary(revision_args)
      m == IF Len(h) > k THEN Len(h) - k ELSE 0
  IN  IF m = 0 THEN << <<>> >>
      ELSE Flatten([j \in 1..m |-> LogEntry(h, Len(h) + 1 - j, file_path)])

(***************************************************************************)
(* process_file.  A per-file result maps an author to                      *)
(*   [lines, count, date, email]:                                          *)
(* the tuple (current lines, historical count, last-modified, email).      *)
(***************************************************************************)

EmptyDict == [k \in {} |-> 0]

\* defaultdict(lambda: ([], 0, None, None))
DefaultEntry == [lines |-> <<>>, count |-> 0, date |-> None, email |-> None]

Get(result, author) == IF author \in DOMAIN result THEN result[author] ELSE DefaultEntry

Put(result, author, entry) ==
  [k \in DOMAIN result \cup {author} |-> IF k = author THEN entry ELSE result[k]]

\* datetime.fromtimestamp(ts).strftime('%Y-%m-%d'): the day the second ts
\* falls on, written here as the number of that day.
FormatDate(ts) == Str(ts \div 86400)

BlameStart ==
  [author |-> None, line_num |-> 0, content |-> None, date |-> None,
   email |-> None, result |-> EmptyDict, raised |-> FALSE]

\* One round of the loop over blame_output.split('\n').  `raised` is the
\* ValueError of int() on a time that is no number; it ends the walk.
BlameLine(st, line) ==
  IF st.raised THEN st
  ELSE IF StartsWith(line, AuthorPrefix) THEN [st EXCEPT !.author = From(line, 7)]
  ELSE IF StartsWith(line, MailPrefix)
       THEN [st EXCEPT !.email = Strip(From(line, 12), {"<", ">"})]
  ELSE IF StartsWith(line, TimePrefix)
       THEN IF IsInt(From(line, 12))
            THEN [st EXCEPT !.date = FormatDate(IntOf(From(line, 12)))]
            ELSE [st EXCEPT !.raised = TRUE]
  ELSE IF StartsWith(line, <<TAB>>)
       THEN IF Truthy(st.author) /\ Truthy(From(line, 1))
            THEN LET old == Get(st.result, st.author)
                 IN  [st EXCEPT
                        !.content  = From(line, 1),
                        !.result   = Put(@, st.author,
                                         [lines |-> Append(old.lines,
                                                      [line_num |-> st.line_num,
                                                       content  |-> From(line, 1),
                                                       date     |-> st.date]),
                                          count |-> old.count,
                                          date  |-> st.date,
                                          email |-> st.email]),
                        !.line_num = @ + 1]
            ELSE [st EXCEPT !.content = From(line, 1)]
  ELSE st

RECURSIVE BlameWalk(_, _)
BlameWalk(st, lines) ==
  IF Len(lines) = 0 THEN st ELSE BlameWalk(BlameLine(st, Head(lines)), Tail(lines))

\* One round of the loop over log_output.split('\n').  The two ValueErrors
\* (a line that does not split into three fields, a count that is no number)
\* are caught inside the loop and skip the line.
LogLine(st, line) ==
  IF StripWs(line) = <<>> THEN st
  ELSE IF ~IsDigit(line[1])
       THEN LET author_info == Split(line, NUL)
            IN  [st EXCEPT !.author = author_info[1],
                           !.email  = IF Len(author_info) > 1 THEN author_info[2] ELSE None]
  ELSE LET fields == Split(line, TAB)
       IN  IF Len(fields) # 3 THEN st
           ELSE IF fields[1] = <<"-">> THEN st
           ELSE IF ~IsInt(fields[1]) THEN st
           ELSE LET old == Get(st.result, st.author)
                IN  [st EXCEPT !.result =
                       Put(@, st.author,
                           [old EXCEPT !.count = @ + IntOf(fields[1]),
                                       !.email = IF Truthy(st.email) THEN st.email
                                                 ELSE old.email])]

RECURSIVE LogWalk(_, _)
LogWalk(st, lines) ==
  IF Len(lines) = 0 THEN st ELSE LogWalk(LogLine(st, Head(lines)), Tail(lines))

\* What git does to one run of process_file on one file.
Outcomes == {"ok", "revlist_fail", "blame_fail", "blame_garbled", "log_fail"}

\* The dict after the blame walk (lines 139-158).
AfterBlame(blame_output) == BlameWalk(BlameStart, blame_output)

\* The dict after the log walk (lines 168-185), begun from the blame walk's.
AfterLog(blame_result, log_output) ==
  LogWalk([author |-> None, email |-> None, result |-> blame_result], log_output).result

\* The dict process_file returns when no command fails.
ParsedResult(blame_output, log_output) ==
  AfterLog(AfterBlame(blame_output).result, log_output)

\* process_file's returned dict when the log command fails although blame
\* succeeded: the outer handler returns {}.
OnLogFailureKeepsBlame(blame_output) == AfterBlame(blame_output).result

OnLogFailure(blame_output) == EmptyDict

\* process_file, second component of the returned pair (the first is
\* file_path itself).
process_file(h, revision_args, file_path, outcome) ==
  LET blame_output == GitBlame(h, revision_args, file_path, outcome = "blame_garbled")
      log_output   == GitLog(h, revision_args, file_path)
  IN  CASE outcome = "revlist_fail" -> EmptyDict
        [] outcome = "blame_fail"   -> EmptyDict
        [] AfterBlame(blame_output).raised -> EmptyDict
        [] outcome = "log_fail"     -> OnLogFailure(blame_output)
        [] OTHER                    -> ParsedResult(blame_output, log_output)

(***************************************************************************)
(* The merge of one per-file result (analyze_repository, lines 237-255)    *)
(* and the reports.                                                        *)
(***************************************************************************)

\* FileContribution()
NewContribution ==
  [current_lines |-> <<>>, historical_lines |-> 0, last_modified |-> None,
   committer_email |-> None]

FileStats(stats, author) == IF author \in DOMAIN stats THEN stats[author] ELSE EmptyDict

MergeStats(stats, file_path, file_results) ==
  [a \in DOMAIN stats \cup DOMAIN file_results |->
     IF a \notin DOMAIN file_results THEN stats[a]
     ELSE LET mine == FileStats(stats, a)
              old  == IF file_path \in DOMAIN mine THEN mine[file_path] ELSE NewContribution
              r    == file_results[a]
          IN  Put(mine, file_path,
                  [current_lines    |-> old.current_lines \o r.lines,
                   historical_lines |-> r.count,
                   last_modified    |-> r.date,
                   committer_email  |-> r.email])]

\* defaultdict(set): reading a missing key gives the empty set
SetOf(d, author) == IF author \in DOMAIN d THEN d[author] ELSE {}

MergeEmails(emails, file_results) ==
  LET named == {a \in DOMAIN file_results : Truthy(file_results[a].email)}
  IN  [a \in DOMAIN emails \cup named |->
         IF a \in named THEN SetOf(emails, a) \cup {file_results[a].email}
         ELSE emails[a]]

MergeCompanies(companies, file_results) ==
  LET named == {a \in DOMAIN file_results :
                  /\ Truthy(file_results[a].email)
                  /\ Truthy(extract_email_domain(file_results[a].email))}
  IN  [a \in DOMAIN companies \cup named |->
         IF a \in named
         THEN SetOf(companies, a) \cup {extract_email_domain(file_results[a].email)}
         ELSE companies[a]]

\* sum(len(stats.current_lines) for stats in file_stats.values())
RECURSIVE SumCurrent(_, _)
SumCurrent(file_stats, paths) ==
  IF paths = {} THEN 0
  ELSE LET f == CHOOSE x \in paths : TRUE
       IN  Len(file_stats[f].current_lines) + SumCurrent(file_stats, paths \ {f})

\* sum(stats.historical_lines for stats in file_stats.values())
RECURSIVE SumHistorical(_, _)
SumHistorical(file_stats, paths) ==
  IF paths = {} THEN 0
  ELSE LET f == CHOOSE x \in paths : TRUE
       IN  file_stats[f].historical_lines + SumHistorical(file_stats, paths \ {f})

\* A plausible slip in a totals loop: the counts are collected in a set
\* before they are added, so equal counts of two files are added once.
RECURSIVE SumOfSet(_)
SumOfSet(S) ==
  IF S = {} THEN 0
  ELSE LET x == CHOOSE y \in S : TRUE IN x + SumOfSet(S \ {x})

TotalCurrentDeduplicated(file_stats) ==
  SumOfSet({Len(file_stats[f].current_lines) : f \in DOMAIN file_stats})

TotalCurrent(file_stats) == SumCurrent(file_stats, DOMAIN file_stats)

TotalHistorical(file_stats) == SumHistorical(file_stats, DOMAIN file_stats)

\* _generate_json_report: report_data['contributors']
JsonContributors(stats, emails, companies) ==
  [a \in DOMAIN stats |->
     [emails                 |-> SetOf(emails, a),
      companies              |-> SetOf(companies, a),
      total_current_lines    |-> TotalCurrent(stats[a]),
      total_historical_lines |-> TotalHistorical(stats[a]),
      files |-> [f \in DOMAIN stats[a] |->
                   [current_lines    |-> Len(stats[a][f].current_lines),
                    historical_lines |-> stats[a][f].historical_lines,
                    last_modified    |-> stats[a][f].last_modified]]]]

\* sorted(self.contributor_stats.keys()) raises TypeError when None has to
\* be compared with a name, that is when None is one of several keys.
CsvSortRaises(stats) == None \in DOMAIN stats /\ Cardinality(DOMAIN stats) > 1

\* The totals loop of _generate_csv_report (lines 314-319): both counters
\* start at 0 and grow by one file's counts per round.
RECURSIVE CsvTotals(_, _, _)
CsvTotals(file_stats, paths, acc) ==
  IF paths = {} THEN acc
  ELSE LET f == CHOOSE x \in paths : TRUE
       IN  CsvTotals(file_stats, paths \ {f},
                     [current_lines    |-> acc.current_lines + Len(file_stats[f].current_lines),
                      historical_lines |-> acc.historical_lines + file_stats[f].historical_lines])

\* _generate_csv_report: the rows after the header, by author (the order of
\* the rows is not modelled)
CsvRows(stats, emails) ==
  [a \in DOMAIN stats |->
     LET totals == CsvTotals(stats[a], DOMAIN stats[a],
                             [current_lines |-> 0, historical_lines |-> 0])
     IN  [emails                 |-> SetOf(emails, a),
          total_historical_lines |-> totals.historical_lines,
          total_current_lines    |-> totals.current_lines]]

\* _generate_text_report: per contributor the two totals, the contact
\* blocks and, unless no_sample_code, the per-file listings (files with
\* current lines, files with historical lines).  The order of the blocks and
\* the sample lines themselves are not modelled.
TextBlocks(stats, emails, companies, no_sample_code) ==
  [a \in DOMAIN stats |->
     [emails                 |-> SetOf(emails, a),
      companies              |-> SetOf(companies, a),
      total_current_lines    |-> TotalCurrent(stats[a]),
      total_historical_lines |-> TotalHistorical(stats[a]),
      files |-> IF no_sample_code THEN EmptyDict
                ELSE [f \in {g \in DOMAIN stats[a] :
                               \/ Len(stats[a][g].current_lines) > 0
                               \/ stats[a][g].historical_lines > 0} |->
                        [current_lines    |-> Len(stats[a][f].current_lines),
                         historical_lines |-> stats[a][f].historical_lines]]]]

Formats == {"txt", "json", "csv"}

\* Reading self.contributor_emails[author] in the json and csv reports
\* creates the missing keys of the defaultdict.
TouchAll(d, authors) == [a \in DOMAIN d \cup authors |-> SetOf(d, a)]

(***************************************************************************)
(* The run of main(): the state.                                           *)
(*   pc                     where main() is: "start", "pool" (inside the   *)
(*                          worker pool), "report", "done"                 *)
(*   exclude_commits, exclude_paths, exclude_patterns                      *)
(*                          the analyzer's fields after __init__           *)
(*   file_extensions        the --extensions set (empty: no filter)        *)
(*   tracked, repo          what git holds: the paths ls-files prints, in  *)
(*                          its order, and each path's history             *)
(*   files                  the list after filtering                       *)
(*   unit, git_outcome      per entry of files: the state of its task      *)
(*                          ("queued", "running", "hung", "returned",      *)
(*                          "collected")                                   *)
(*                          and what git did during it                     *)
(*   results, outqueue      the returned dicts and the pool's result queue *)
(*   processed              the coordinator's counter i                    *)
(*   contributor_stats, contributor_emails, contributor_companies          *)
(*   stdout                 the messages printed so far                    *)
(*   report                 the report file                                *)
(***************************************************************************)
VARIABLES pc, exclude_commits, exclude_paths, exclude_patterns, file_extensions,
          tracked, repo, files, unit, git_outcome, results, outqueue, processed,
          contributor_stats, contributor_emails, contributor_companies,
          stdout, report

vars == <<pc, exclude_commits, exclude_paths, exclude_patterns, file_extensions,
          tracked, repo, files, unit, git_outcome, results, outqueue, processed,
          contributor_stats, contributor_emails, contributor_companies,
          stdout, report>>

config == <<exclude_commits, exclude_paths, exclude_patterns, file_extensions,
            tracked, repo>>

maps == <<contributor_stats, contributor_emails, contributor_companies>>

\* multiprocessing.cpu_count()
cpu_count == 2

Range(s) == {s[i] : i \in 1..Len(s)}

Say(text, i, n) == [msg |-> text, i |-> i, n |-> n]

Printed(text) == \E m \in Range(stdout) : m.msg = text

\* The state main() starts from, given its arguments and the repository.
Boot(raw_commits, raw_paths, patterns, extensions, paths, histories) ==
  /\ pc = "start"
  /\ exclude_commits = CleanExcludeCommits(raw_commits)
  /\ exclude_paths = CleanExcludePaths(raw_paths)
  /\ exclude_patterns = patterns
  /\ file_extensions = extensions
  /\ tracked = paths
  /\ repo = histories
  /\ files = <<>>
  /\ unit = <<>>
  /\ git_outcome = <<>>
  /\ results = <<>>
  /\ outqueue = <<>>
  /\ processed = 0
  /\ contributor_stats = EmptyDict
  /\ contributor_emails = EmptyDict
  /\ contributor_companies = EmptyDict
  /\ stdout = <<>>
  /\ report = [status |-> "none", format |-> "none", contributors |-> EmptyDict]

\* The filter of lines 210-214.
PassesExtensions(f, extensions) ==
  extensions = {} \/ \E ext \in extensions : EndsWith(f, ext)

FilterFilesWithoutExclusion(listed, excl_paths, excl_patterns, extensions) ==
  SelectSeq(listed, LAMBDA f : Truthy(f) /\ PassesExtensions(f, extensions))

FilterFiles(listed, excl_paths, excl_patterns, extensions) ==
  SelectSeq(listed, LAMBDA f : /\ Truthy(f)
                               /\ ~should_exclude_file(f, excl_paths, excl_patterns)
                               /\ PassesExtensions(f, extensions))

\* git ls-files exits non-zero: the message is printed and
\* analyze_repository returns to main().
LsFilesFails ==
  /\ pc = "start"
  /\ stdout' = Append(stdout, Say("Error listing repository files", 0, 0))
  /\ pc' = "report"
  /\ UNCHANGED <<config, files, unit, git_outcome, results, outqueue, processed, maps, report>>

\* git ls-files succeeds: its output is split (the text ends with a newline,
\* so the last piece is empty), filtered, and the pool is opened.
StartAnalysis ==
  /\ pc = "start"
  /\ files' = FilterFiles(Append(tracked, <<>>), exclude_paths, exclude_patterns,
                          file_extensions)
  /\ unit' = [i \in 1..Len(files') |-> "queued"]
  /\ git_outcome' = [i \in 1..Len(files') |-> "none"]
  /\ results' = [i \in 1..Len(files') |-> EmptyDict]
  /\ stdout' = Append(stdout, Say("Processing files", 0, Len(files')))
  /\ pc' = "pool"
  /\ UNCHANGED <<config, outqueue, processed, maps, report>>

\* A free worker takes the next task of the list.
Dispatch(i) ==
  /\ pc = "pool"
  /\ unit[i] = "queued"
  /\ \A j \in 1..(i - 1) : unit[j] # "queued"
  /\ Cardinality({j \in 1..Len(files) : unit[j] \in {"running", "hung"}}) < cpu_count
  /\ unit' = [unit EXCEPT ![i] = "running"]
  /\ UNCHANGED <<pc, config, files, git_outcome, results, outqueue, processed, maps, stdout, report>>

\* A worker runs process_file on its task and puts the pair on the result
\* queue.
ProcessFile(i) ==
  /\ pc = "pool"
  /\ unit[i] = "running"
  /\ \E outcome \in Outcomes :
       /\ git_outcome' = [git_outcome EXCEPT ![i] = outcome]
       /\ results' = [results EXCEPT ![i] =
                        process_file(repo[files[i]], get_revision_range(exclude_commits),
                                     files[i], outcome)]
  /\ unit' = [unit EXCEPT ![i] = "returned"]
  /\ outqueue' = Append(outqueue, i)
  /\ UNCHANGED <<pc, config, files, processed, maps, stdout, report>>

\* A git subprocess of the worker never exits: check_output is called
\* without a timeout, so process_file never returns and the worker stays
\* occupied.
Hang(i) ==
  /\ pc = "pool"
  /\ unit[i] = "running"
  /\ unit' = [unit EXCEPT ![i] = "hung"]
  /\ UNCHANGED <<pc, config, files, git_outcome, results, outqueue, processed, maps, stdout, report>>

\* The coordinator takes the next completed pair and merges it.
Collect ==
  /\ pc = "pool"
  /\ Len(outqueue) > 0
  /\ LET i == Head(outqueue)
     IN  /\ unit' = [unit EXCEPT ![i] = "collected"]
         /\ contributor_stats' = MergeStats(contributor_stats, files[i], results[i])
         /\ contributor_emails' = MergeEmails(contributor_emails, results[i])
         /\ contributor_companies' = MergeCompanies(contributor_companies, results[i])
  /\ outqueue' = Tail(outqueue)
  /\ processed' = processed + 1
  /\ stdout' = Append(stdout, Say("Processed", processed + 1, Len(files)))
  /\ UNCHANGED <<pc, config, files, git_outcome, results, report>>

\* A loop that ends as soon as the result queue is found empty.
CompleteWhenQueueEmpty ==
  /\ pc = "pool"
  /\ outqueue = <<>>
  /\ stdout' = Append(stdout, Say("Analysis complete!", 0, 0))
  /\ pc' = "report"
  /\ UNCHANGED <<config, files, unit, git_outcome, results, outqueue, processed, maps, report>>

\* imap_unordered is exhausted: every task's pair has been yielded.
CompleteAnalysis ==
  /\ pc = "pool"
  /\ \A i \in 1..Len(files) : unit[i] = "collected"
  /\ stdout' = Append(stdout, Say("Analysis complete!", 0, 0))
  /\ pc' = "report"
  /\ UNCHANGED <<config, files, unit, git_outcome, results, outqueue, processed, maps, report>>

\* main() line 445 and 447: generate_report, then the closing message.  A
\* TypeError of the csv report's sorted() ends main() after the header row.
GenerateReport(format, no_sample_code) ==
  /\ pc = "report"
  /\ pc' = "done"
  /\ CASE format = "json" ->
            /\ report' = [status |-> "written", format |-> "json",
                          contributors |-> JsonContributors(contributor_stats,
                                             contributor_emails, contributor_companies)]
            /\ contributor_emails' = TouchAll(contributor_emails, DOMAIN contributor_stats)
            /\ contributor_companies' = TouchAll(contributor_companies, DOMAIN contributor_stats)
            /\ stdout' = Append(stdout, Say("Detailed report written", 0, 0))
       [] format = "csv" /\ CsvSortRaises(contributor_stats) ->
            /\ report' = [status |-> "crashed", format |-> "csv", contributors |-> EmptyDict]
            /\ UNCHANGED <<contributor_emails, contributor_companies, stdout>>
       [] format = "csv" /\ ~CsvSortRaises(contributor_stats) ->
            /\ report' = [status |-> "written", format |-> "csv",
                          contributors |-> CsvRows(contributor_stats, contributor_emails)]
            /\ contributor_emails' = TouchAll(contributor_emails, DOMAIN contributor_stats)
            /\ stdout' = Append(stdout, Say("Detailed report written", 0, 0))
            /\ UNCHANGED contributor_companies
       [] OTHER ->
            /\ report' = [status |-> "written", format |-> "txt",
                          contributors |-> TextBlocks(contributor_stats, contributor_emails,
                                             contributor_companies, no_sample_code)]
            /\ stdout' = Append(stdout, Say("Detailed report written", 0, 0))
            /\ UNCHANGED <<contributor_emails, contributor_companies>>
  /\ UNCHANGED <<config, files, unit, git_outcome, results, outqueue, processed,
                 contributor_stats>>

Next ==
  \/ LsFilesFails
  \/ StartAnalysis
  \/ \E i \in 1..Len(files) : Dispatch(i)
  \/ \E i \in 1..Len(files) : ProcessFile(i)
  \/ \E i \in 1..Len(files) : Hang(i)
  \/ Collect
  \/ CompleteAnalysis
  \/ \E format \in Formats, no_sample_code \in BOOLEAN : GenerateReport(format, no_sample_code)

(***************************************************************************)
(* The inputs: repositories and command lines.                             *)
(***************************************************************************)

MaxFiles == 3
MaxCommits == 2
MaxLines == 2
MaxExcludePaths == 2

AL   == <<"a", "l">>
BO   == <<"b", "o">>
NINE == <<"9", "z">>

\* One display name under two addresses, an address without '@', and a
\* display name that starts with a digit.
Identities ==
  { [author |-> AL,   email |-> <<"a", "@", "x">>],
    [author |-> AL,   email |-> <<"a", "@", "y">>],
    [author |-> BO,   email |-> <<"b", "o">>],
    [author |-> NINE, email |-> <<"z", "@", "x">>] }

\* Line contents: a line of text and the empty line.
Contents == { <<"x">>, <<>> }

RECURSIVE SeqsUpTo(_, _)
SeqsUpTo(S, n) ==
  IF n = 0 THEN { <<>> }
  ELSE SeqsUpTo(S, n - 1) \cup
       { Append(q, x) : q \in {r \in SeqsUpTo(S, n - 1) : Len(r) = n - 1}, x \in S }

Commit(who, n, adds, replace, binary) ==
  [author |-> who.author, email |-> who.email, time |-> n * 86400,
   adds |-> adds, replace |-> replace, binary |-> binary]

\* The commits that can follow history h: a commit changes the file (it
\* adds lines, or deletes the lines there are), or is a binary change.
CommitsAfter(h, ids) ==
  LET n == Len(h) + 1
  IN  { Commit(who, n, adds, replace, FALSE) :
          who \in ids,
          adds \in SeqsUpTo(Contents, MaxLines) \ { <<>> },
          replace \in {r \in BOOLEAN : r => Len(LinesAt(h, Len(h))) > 0} }
      \cup { Commit(who, n, <<>>, TRUE, FALSE) :
               who \in {w \in ids : Len(LinesAt(h, Len(h))) > 0} }
      \cup { Commit(who, n, <<>>, FALSE, TRUE) : who \in ids }

RECURSIVE HistoriesOfLen(_, _)
HistoriesOfLen(n, ids) ==
  IF n = 0 THEN { <<>> }
  ELSE UNION { { Append(h, c) : c \in CommitsAfter(h, ids) } : h \in HistoriesOfLen(n - 1, ids) }

\* Every history of at most `most` commits by the identities `ids`.
Histories(most, ids) == UNION { HistoriesOfLen(n, ids) : n \in 1..most }

\* Three histories for the runs over several files: one commit; a second
\* author overwriting the first; a digit-named author appending a line.
OneCommit == << Commit([author |-> AL, email |-> <<"a", "@", "x">>], 1, << <<"x">> >>, FALSE, FALSE) >>

Overwritten ==
  << Commit([author |-> AL, email |-> <<"a", "@", "x">>], 1, << <<"x">> >>, FALSE, FALSE),
     Commit([author |-> BO, email |-> <<"b", "o">>], 2, << <<"x">>, <<"x">> >>, TRUE, FALSE) >>

DigitAppended ==
  << Commit([author |-> AL, email |-> <<"a", "@", "y">>], 1, << <<"x">> >>, FALSE, FALSE),
     Commit([author |-> NINE, email |-> <<"z", "@", "x">>], 2, << <<"x">> >>, FALSE, FALSE) >>

\* One commit under the first author's other address.
OtherAddress == << Commit([author |-> AL, email |-> <<"a", "@", "y">>], 1, << <<"x">> >>, FALSE, FALSE) >>

\* The tracked paths of the runs over several files, in ls-files' order,
\* and the history of each.
PathPool == << <<"a">>, <<"b", ".", "j">>, <<"c">>, <<"v", "/", "a">> >>

PoolHistory(path) ==
  CASE path = <<"a">>           -> OneCommit
    [] path = <<"b", ".", "j">> -> Overwritten
    [] path = <<"c">>           -> DigitAppended
    [] path = <<"d">>           -> OtherAddress
    [] OTHER                    -> Overwritten

RECURSIVE Pick(_, _)
Pick(pool, indexes) ==
  IF indexes = {} THEN <<>>
  ELSE LET i == CHOOSE j \in indexes : \A k \in indexes : j <= k
       IN  <<pool[i]>> \o Pick(pool, indexes \ {i})

TrackedLists ==
  { Pick(PathPool, S) : S \in {T \in SUBSET (1..Len(PathPool)) : Cardinality(T) <= MaxFiles} }

\* Runs over several files: nothing excluded, a directory excluded, a
\* pattern excluded; with and without an extension filter.
Init ==
  \E raw_paths \in { <<>>, << <<"v", "/">> >> },
     patterns \in { <<>>, << <<"*", ".", "j">> >> },
     extensions \in { {}, { <<".", "j">> } },
     paths \in TrackedLists :
    Boot(<<>>, raw_paths, patterns, extensions, paths,
         [f \in Range(paths) |-> PoolHistory(f)])

Spec == Init /\ [][Next]_vars

\* Runs over several files none of which has a digit-named author, with one
\* author under two addresses in two files.
PlainPathPool == << <<"a">>, <<"b", ".", "j">>, <<"d">>, <<"v", "/", "a">> >>

PlainTrackedLists ==
  { Pick(PlainPathPool, S) :
      S \in {T \in SUBSET (1..Len(PlainPathPool)) : Cardinality(T) <= MaxFiles} }

InitPlainFiles ==
  \E raw_paths \in { <<>>, << <<"v", "/">> >> },
     patterns \in { <<>>, << <<"*", ".", "j">> >> },
     extensions \in { {}, { <<".", "j">> } },
     paths \in PlainTrackedLists :
    Boot(<<>>, raw_paths, patterns, extensions, paths,
         [f \in Range(paths) |-> PoolHistory(f)])

SpecPlainFiles == InitPlainFiles /\ [][Next]_vars

\* The same runs under the scheduling of multiprocessing.Pool and of the
\* coordinator's loop: a free worker takes the next task, a worker whose
\* subprocesses exit returns its pair, the coordinator takes every pair put
\* on the result queue and leaves the loop once the iterator is exhausted.
\* Nothing obliges a subprocess to exit: Hang and ProcessFile are both open
\* to a running unit, and once it hangs no condition applies to it.
\*
\* The worker's condition is written on ProcessFile's effect on unit.  The
\* steps of Next that take a unit from running to returned are those of
\* ProcessFile, and one is possible exactly when a unit is running, so in the
\* behaviours of Next weak fairness of ProcessFileReturns on unit is weak
\* fairness of \E i : ProcessFile(i) on vars.
ProcessFileReturns ==
  \E i \in 1..Len(files) :
    unit[i] = "running" /\ unit' = [unit EXCEPT ![i] = "returned"]

Fairness ==
  /\ WF_vars(StartAnalysis)
  /\ WF_vars(\E i \in 1..Len(files) : Dispatch(i))
  /\ WF_unit(ProcessFileReturns)
  /\ WF_vars(Collect)
  /\ WF_vars(CompleteAnalysis)

SpecFair == Init /\ [][Next]_vars /\ Fairness

\* Runs over one file with any history, with and without an excluded commit.
TheFile == <<"f">>

OneFileRuns(ids) ==
  \E h \in Histories(MaxCommits, ids) :
    \E raw_commits \in { <<>> } \cup { << Str(k) >> : k \in 1..Len(h) }
                       \cup { << <<SP>> \o Str(k) >> : k \in 1..Len(h) } :
      Boot(raw_commits, <<>>, <<>>, {}, <<TheFile>>, [f \in {TheFile} |-> h])

InitOneFile == OneFileRuns(Identities)

SpecOneFile == InitOneFile /\ [][Next]_vars

\* The same runs without the display name that starts with a digit.
InitPlainNames == OneFileRuns({who \in Identities : ~IsDigit(who.author[1])})

SpecPlainNames == InitPlainNames /\ [][Next]_vars

\* Runs over one file with any exclusion lists.
ExcludedFilePool ==
  { <<"a">>, <<"b", "a">>, <<"a", "b">>, <<"b", "/", "a">>, <<"a", "/", "b">>,
    <<"b", "/", "a", "/", "c">>, <<"b", BSL, "a">> }

RawExcludePathPool ==
  { <<"a">>, <<"/", "a", "/">>, <<"b", "/", "a">>, <<"b", BSL, "a">>, <<"a", "/">>, <<SP>> }

PatternLists ==
  { <<>>, << <<"*", "a">> >>, << <<"b", "?">> >>, << <<"b", "/", "a">> >>,
    << <<"a", "*">>, <<"?">> >> }

InitExclude ==
  \E raw_paths \in SeqsUpTo(RawExcludePathPool, MaxExcludePaths),
     patterns \in PatternLists,
     f \in ExcludedFilePool :
    Boot(<<>>, raw_paths, patterns, {}, <<f>>, [g \in {f} |-> OneCommit])

SpecExclude == InitExclude /\ [][Next]_vars

(***************************************************************************)
(* The claims.                                                             *)
(***************************************************************************)

AnalysisComplete == Printed("Analysis complete!")

ListingFailed == Printed("Error listing repository files")

Excluded(f) == should_exclude_file(f, exclude_paths, exclude_patterns)

RecordedFiles == UNION { DOMAIN contributor_stats[a] : a \in DOMAIN contributor_stats }

\* C1: once analyze_repository has finished, no author's entry of
\* contributor_stats holds a record keyed by a tracked file that
\* should_exclude_file rejects.
C1_ExcludedFilesHaveNoRecord ==
  AnalysisComplete =>
    \A f \in Range(tracked) :
      Excluded(f) => \A a \in DOMAIN contributor_stats : f \notin DOMAIN contributor_stats[a]

\* A finished run over three tracked files of which one was excluded, the
\* other two were processed and merged.
C1_Witness ==
  /\ AnalysisComplete
  /\ Len(tracked) = 3
  /\ \E f \in Range(tracked) : Excluded(f)
  /\ Cardinality(RecordedFiles) = 2

\* The number of current lines and of historical lines in an author's
\* records, counted line by line.
CountedCurrent(file_stats) ==
  Cardinality(UNION { { <<f, i>> : i \in 1..Len(file_stats[f].current_lines) } :
                        f \in DOMAIN file_stats })

CountedHistorical(file_stats) ==
  Cardinality(UNION { { <<f, i>> : i \in 1..file_stats[f].historical_lines } :
                        f \in DOMAIN file_stats })

\* C2: every report that is written gives, for every author of
\* contributor_stats, a current-line total and a historical total equal to
\* the sums of len(current_lines) and of historical_lines over the author's
\* per-file records; the json and the csv report of the same maps give the
\* same two totals.
C2_ReportTotalsAreSums ==
  /\ report.status = "written" =>
       /\ DOMAIN report.contributors = DOMAIN contributor_stats
       /\ \A a \in DOMAIN report.contributors :
            /\ report.contributors[a].total_current_lines
                 = CountedCurrent(contributor_stats[a])
            /\ report.contributors[a].total_historical_lines
                 = CountedHistorical(contributor_stats[a])
  /\ pc \in {"report", "done"} =>
       \A a \in DOMAIN contributor_stats :
         LET json == JsonContributors(contributor_stats, contributor_emails,
                                      contributor_companies)[a]
             csv  == CsvRows(contributor_stats, contributor_emails)[a]
         IN  /\ json.total_current_lines = csv.total_current_lines
             /\ json.total_historical_lines = csv.total_historical_lines

\* A written report with an author who has records for two files, with
\* current lines in both.
C2_Witness ==
  /\ report.status = "written"
  /\ \E a \in DOMAIN contributor_stats :
       /\ Cardinality(DOMAIN contributor_stats[a]) >= 2
       /\ \A f \in DOMAIN contributor_stats[a] : Len(contributor_stats[a][f].current_lines) > 0
       /\ report.contributors[a].total_historical_lines > 0

\* contributor_stats as the merge, in list order, of the results of the
\* files whose commands all succeeded, the other files left out of the
\* list.
RECURSIVE MergedWithoutFailures(_)
MergedWithoutFailures(n) ==
  IF n = 0 THEN EmptyDict
  ELSE IF git_outcome[n] # "ok" THEN MergedWithoutFailures(n - 1)
  ELSE MergeStats(MergedWithoutFailures(n - 1), files[n],
                  ParsedResult(GitBlame(repo[files[n]], get_revision_range(exclude_commits),
                                        files[n], FALSE),
                               GitLog(repo[files[n]], get_revision_range(exclude_commits),
                                      files[n])))

\* C4: a file whose rev-list, blame or log fails, or whose blame output
\* raises while parsed, returns an empty result and gets no record, and the
\* run still completes with the other files merged as if that file had not
\* been listed.
C4_FailuresAreAbsorbed ==
  /\ \A i \in 1..Len(files) :
       (unit[i] \in {"returned", "collected"} /\ git_outcome[i] # "ok")
         => results[i] = EmptyDict
  /\ AnalysisComplete =>
       /\ processed = Len(files)
       /\ \A i \in 1..Len(files) : git_outcome[i] # "ok" => files[i] \notin RecordedFiles
       /\ contributor_stats = MergedWithoutFailures(Len(files))

\* A finished run with a file whose log failed after its blame succeeded, a
\* file whose blame output could not be parsed, and a file that was merged.
C4_Witness ==
  /\ AnalysisComplete
  /\ \E i \in 1..Len(files) : git_outcome[i] = "log_fail"
  /\ \E i \in 1..Len(files) : git_outcome[i] = "blame_garbled"
  /\ \E i \in 1..Len(files) : git_outcome[i] = "ok" /\ files[i] \in RecordedFiles

\* C5: after git ls-files has failed, no file is processed and no report
\* file is generated.
C5_ListingFailureIsFatal ==
  ListingFailed => (files = <<>> /\ processed = 0 /\ report.status = "none")

Normalized(path) == Replace(Strip(path, {"/"}), BSL, "/")

\* The components of cs are consecutive components of fs.
IsRunOf(cs, fs) ==
  \E i \in 0..(Len(fs) - Len(cs)) : SubSeq(fs, i + 1, i + Len(cs)) = cs

Survives(f) == f \in Range(files)

\* C6 as stated: a file is excluded exactly when some exclude path equals
\* it, is a directory prefix of it or occurs in it as a substring, or some
\* glob pattern matches it.
C6_ExcludedBySubstring ==
  (pc # "start" /\ ~ListingFailed) =>
    \A f \in Range(tracked) :
      ~Survives(f) <=>
        \/ \E i \in 1..Len(exclude_paths) :
             \/ Normalized(f) = Normalized(exclude_paths[i])
             \/ StartsWith(Normalized(f), Normalized(exclude_paths[i]) \o <<"/">>)
             \/ Contains(Normalized(f), Normalized(exclude_paths[i]))
        \/ \E j \in 1..Len(exclude_patterns) :
             FnMatch(PatternSubject(f, exclude_paths), exclude_patterns[j])

\* C6, amended: a file is excluded exactly when the components of some
\* exclude path (slashes stripped, backslashes read as slashes) are
\* consecutive whole components of the file's path, or some glob pattern
\* matches the path.
C6_ExcludedByComponents ==
  (pc # "start" /\ ~ListingFailed) =>
    \A f \in Range(tracked) :
      ~Survives(f) <=>
        \/ \E i \in 1..Len(exclude_paths) :
             IsRunOf(Split(Normalized(exclude_paths[i]), "/"), Split(Normalized(f), "/"))
        \/ \E j \in 1..Len(exclude_patterns) :
             FnMatch(PatternSubject(f, exclude_paths), exclude_patterns[j])

\* A file excluded by an exclude path that is neither the path itself nor
\* its beginning, with no pattern matching.
C6_Witness ==
  /\ pc = "pool"
  /\ \E f \in Range(tracked) :
       /\ ~Survives(f)
       /\ \A i \in 1..Len(exclude_paths) :
            /\ Normalized(f) # Normalized(exclude_paths[i])
            /\ ~StartsWith(Normalized(f), Normalized(exclude_paths[i]) \o <<"/">>)
       /\ \A j \in 1..Len(exclude_patterns) :
            ~FnMatch(PatternSubject(f, exclude_paths), exclude_patterns[j])

(***************************************************************************)
(* The claims about one file's history (runs over the single file).        *)
(***************************************************************************)

TheHistory == repo[TheFile]

TheLines == LinesAt(TheHistory, Len(TheHistory))

TheRange == get_revision_range(exclude_commits)

\* The run has finished and every git command on the file succeeded.
FileAnalysed == AnalysisComplete /\ Len(files) = 1 /\ git_outcome[1] = "ok"

RecordOf(a) ==
  IF a \in DOMAIN contributor_stats /\ TheFile \in DOMAIN contributor_stats[a]
  THEN contributor_stats[a][TheFile]
  ELSE NewContribution

\* The commits of the revision range.
InRange == (Boundary(TheRange) + 1)..Len(TheHistory)

RECURSIVE AddedIn(_, _)
AddedIn(commits, a) ==
  IF commits = {} THEN 0
  ELSE LET n == CHOOSE m \in commits : TRUE
       IN  (IF TheHistory[n].author = a /\ ~TheHistory[n].binary
            THEN Len(TheHistory[n].adds) ELSE 0)
           + AddedIn(commits \ {n}, a)

HistoryAuthors == { TheHistory[n].author : n \in 1..Len(TheHistory) }

\* The authors git log names with a count above zero, and the authors git
\* blame names.
LogAuthors == { a \in HistoryAuthors : AddedIn(InRange, a) > 0 }

BlameAuthors ==
  { TheHistory[BlamedCommit(TheLines[i].origin, TheRange)].author : i \in 1..Len(TheLines) }

\* C3: with one commit by one author, the author's current-line count for
\* the file is the number of lines of the file and the historical count is
\* the number of lines the commit added.
C3_OneCommitCounts ==
  (FileAnalysed /\ Len(TheHistory) = 1 /\ exclude_commits = <<>>) =>
    /\ Len(RecordOf(TheHistory[1].author).current_lines) = Len(TheLines)
    /\ RecordOf(TheHistory[1].author).historical_lines = Len(TheHistory[1].adds)

\* C7: with a commit excluded through the revision range, no author has
\* more current lines than the commits of the range gave them, and the
\* historical counts together do not exceed what the commits of the range
\* added: nothing of the excluded commits is counted.
C7_ExcludedCommitLeavesNoLines ==
  (FileAnalysed /\ Boundary(TheRange) > 0) =>
    /\ \A a \in DOMAIN contributor_stats :
         Len(RecordOf(a).current_lines)
           <= Cardinality({ i \in 1..Len(TheLines) :
                              /\ TheLines[i].origin \in InRange
                              /\ TheHistory[TheLines[i].origin].author = a })
    /\ Cardinality(UNION { { <<a, i>> : i \in 1..RecordOf(a).historical_lines } :
                             a \in DOMAIN contributor_stats })
         <= Cardinality(UNION { { <<n, i>> : i \in 1..Len(TheHistory[n].adds) } :
                                  n \in InRange })

\* C8: an author whom the log names with added lines and blame with none
\* has a record for the file with a historical count above zero and no
\* current lines, and the report shows that author's totals as non-zero
\* and zero.
C8_HistoryOnlyAuthorIsReported ==
  (FileAnalysed /\ pc = "done") =>
    \A a \in LogAuthors \ BlameAuthors :
      /\ a \in DOMAIN contributor_stats
      /\ TheFile \in DOMAIN contributor_stats[a]
      /\ RecordOf(a).historical_lines > 0
      /\ RecordOf(a).current_lines = <<>>
      /\ report.status = "written"
      /\ a \in DOMAIN report.contributors
      /\ report.contributors[a].total_historical_lines > 0
      /\ report.contributors[a].total_current_lines = 0

\* C9: the dict process_file returns holds, for every key, the lines added
\* by that author's commits of the range as its historical count, has a key
\* for every author the log names with added lines, and has no key that is
\* no author of the file.
C9_CountsGoToTheCommitAuthor ==
  (Len(files) = 1 /\ unit[1] \in {"returned", "collected"} /\ git_outcome[1] = "ok") =>
    /\ \A key \in DOMAIN results[1] : results[1][key].count = AddedIn(InRange, key)
    /\ LogAuthors \subseteq DOMAIN results[1]
    /\ DOMAIN results[1] \subseteq HistoryAuthors

\* The addresses under which git blame or git log names author a.
AddressesOf(a) ==
  { TheHistory[BlamedCommit(TheLines[i].origin, TheRange)].email :
      i \in { j \in 1..Len(TheLines) :
                TheHistory[BlamedCommit(TheLines[j].origin, TheRange)].author = a } }
  \cup { TheHistory[n].email : n \in { m \in InRange : TheHistory[m].author = a } }

\* C10: after the merge the email set of an author with a record is the set
\* of addresses under which blame or log name the author, and the domain
\* set holds the domain of each of those addresses that contains '@'.
C10_EmailsAreTheUnion ==
  (FileAnalysed /\ pc = "report") =>
    \A a \in DOMAIN contributor_stats :
      /\ SetOf(contributor_emails, a) = AddressesOf(a)
      /\ SetOf(contributor_companies, a)
           = { extract_email_domain(e) : e \in { x \in AddressesOf(a) : "@" \in Range(x) } }

(***************************************************************************)
(* The end of the aggregation pass.                                        *)
(***************************************************************************)

PoolOpen == pc = "pool"

SomeUnitHung == \E i \in 1..Len(files) : unit[i] = "hung"

ProgressLines == {k \in 1..Len(stdout) : stdout[k].msg = "Processed"}

\* Every unit has returned and its pair has been taken and merged, one
\* progress line each, counted 1..n.
EveryUnitCollected ==
  /\ \A i \in 1..Len(files) : unit[i] = "collected"
  /\ outqueue = <<>>
  /\ processed = Len(files)
  /\ Cardinality(ProgressLines) = Len(files)
  /\ {stdout[k].i : k \in ProgressLines} = 1..Len(files)

\* C11: "Analysis complete!" is printed only when every surviving file's
\* unit has returned and the coordinator has taken and merged one result per
\* surviving file, processed being their number; a unit that hangs stays
\* hung and the pass then never completes; and an opened pass leads to
\* completion unless some unit hangs.
C11_CompletesAfterEveryUnit ==
  /\ [](AnalysisComplete => EveryUnitCollected)
  /\ [](SomeUnitHung => ~AnalysisComplete)
  /\ [][\A i \in DOMAIN unit : unit[i] = "hung" => unit'[i] = "hung"]_vars
  /\ PoolOpen ~> (AnalysisComplete \/ SomeUnitHung)

\* The pass has completed over several files.
C11_Witness ==
  /\ AnalysisComplete
  /\ Len(files) >= 2
  /\ processed = Len(files)
  /\ \A i \in 1..Len(files) : unit[i] = "collected"

(***************************************************************************)
(* The merge and the order of delivery.                                    *)
(***************************************************************************)

\* The three maps after the results of the collected units among the first
\* n files have been merged in the order of the list.
RECURSIVE MergedInListOrder(_)
MergedInListOrder(n) ==
  IF n = 0 THEN <<EmptyDict, EmptyDict, EmptyDict>>
  ELSE LET before == MergedInListOrder(n - 1)
       IN  IF unit[n] # "collected" THEN before
           ELSE << MergeStats(before[1], files[n], results[n]),
                   MergeEmails(before[2], results[n]),
                   MergeCompanies(before[3], results[n]) >>

\* Whatever the order of delivery so far, the maps are what the list's order
\* gives for the same results.
MapsFollowFromResults ==
  pc \in {"pool", "report"} => maps = MergedInListOrder(Len(files))

FilesAreDistinct == \A i, j \in 1..Len(files) : files[i] = files[j] => i = j

\* The coordinator's loop body on the pair at the head of the result queue.
MergeStep ==
  /\ pc = "pool"
  /\ Len(outqueue) > 0
  /\ LET i == Head(outqueue)
     IN  /\ unit[i] = "returned"
         /\ unit'[i] = "collected"
         /\ contributor_stats' = MergeStats(contributor_stats, files[i], results[i])
         /\ contributor_emails' = MergeEmails(contributor_emails, results[i])
         /\ contributor_companies' = MergeCompanies(contributor_companies, results[i])

\* C12: with distinct surviving paths the three maps depend on the results
\* only, not on the order of their delivery, and every step of the run that
\* changes one of the three maps is the coordinator merging one completed
\* per-file result.
C12_OnlyMergesWriteTheMaps ==
  /\ [](FilesAreDistinct => MapsFollowFromResults)
  /\ [][maps' # maps => MergeStep]_vars

\* Two files that name the same author under different addresses have both
\* returned, and the coordinator has merged the second of the list while the
\* first is still on the result queue.
C12_Witness ==
  /\ PoolOpen
  /\ Len(files) >= 2
  /\ unit[1] = "returned" /\ unit[2] = "collected"
  /\ \E a \in DOMAIN results[1] \cap DOMAIN results[2] :
       /\ Truthy(results[1][a].email) /\ Truthy(results[2][a].email)
       /\ results[1][a].email # results[2][a].email
       /\ a \in DOMAIN contributor_emails

====
